---- MODULE Spec2Model ----
(***************************************************************************)
(* kajappka-rating-service: the request pipeline (logging, authentication, *)
(* content-type middleware), the three route handlers of App and the       *)
(* MongoRatingRepository they call.  Requests are served concurrently, one *)
(* goroutine per request (net/http); the only state they share is the      *)
(* MongoDB collection, so a handler is cut into steps at its store calls.  *)
(* The goroutines are anonymous: the requests in flight form a bag.  The    *)
(* response a handler writes is held in resp for one state, until it has   *)
(* gone to the client, and nothing else moves meanwhile: sending a response *)
(* touches no shared state, so this leaves out no behaviour of the store.  *)
(***************************************************************************)
EXTENDS Integers, Sequences, FiniteSets, Bags, TLC

\* Bounds of the model.
MaxInFlight == 2      \* requests being served at the same time
MaxRequests == 3      \* requests received in one run

\* HTTP status codes used by the service.
StatusOK == 200
StatusBadRequest == 400
StatusForbidden == 403
StatusInternalServerError == 500

Games == {"g1", "g2"}
UserIDs == {"u1", "u2"}

VARIABLES
    store,     \* the MongoDB collection: documents in natural (insertion) order
    inflight,  \* bag of the requests being served: each with its handler's locals
    resp,      \* the request that has just been answered, with its response
    issued,    \* number of requests received so far
    lastPut    \* history: per (game_id, user_id), the rating of the latest completed write

vars == <<store, inflight, resp, issued, lastPut>>

----------------------------------------------------------------------------
\* Rating entity, its validation and its two encodings.

Rating(userID, gameID, rating) == [UserID |-> userID, GameID |-> gameID, Rating |-> rating]

ZeroRating == Rating("", "", 0)

valid_NoLowerBound(r) == r.Rating <= 5

valid_NoUpperBound(r) == r.Rating >= 1

valid_ZeroAllowed(r) == r.Rating >= 0 /\ r.Rating <= 5

valid(r) == r.Rating >= 1 /\ r.Rating <= 5

\* bson tags: user_id, game_id, rating.
ToBSON(r) == [user_id |-> r.UserID, game_id |-> r.GameID, rating |-> r.Rating]

FromBSON(d) == Rating(d.user_id, d.game_id, d.rating)

\* json tags: UserID is "-", never encoded.
ToJSON(r) == [game_id |-> r.GameID, rating |-> r.Rating]

\* Response bodies: plain text (http.Error), or a JSON null, object or array.
NoOutput == [t |-> "none", text |-> "", items |-> <<>>]
TextBody(msg) == [t |-> "text", text |-> msg, items |-> <<>>]
JSONNull == [t |-> "null", text |-> "", items |-> <<>>]
JSONObject(r) == [t |-> "object", text |-> "", items |-> <<ToJSON(r)>>]
JSONArray(rs) == [t |-> "array", text |-> "", items |-> [i \in DOMAIN rs |-> ToJSON(rs[i])]]

\* A Go slice of Rating: nil or not, and its elements.
Slice(isNil, elems) == [nil |-> isNil, elems |-> elems]

\* json.Encoder.Encode of a slice: a nil slice encodes as null.
EncodeSlice(sl) == IF sl.nil THEN JSONNull ELSE JSONArray(sl.elems)

----------------------------------------------------------------------------
\* PUT request bodies and json.Decoder.Decode into a Rating.

BodyRatings == {-1, 0, 3, 4, 7}

NoBody ==
    [kind |-> "none", has_rating |-> FALSE, rating |-> 0, has_game |-> FALSE, game_id |-> "",
     has_user |-> FALSE, user_id |-> ""]
MalformedBody == [NoBody EXCEPT !.kind = "malformed"]
ObjectBody(hasRating, rating, hasGame, gameID) ==
    [kind |-> "object", has_rating |-> hasRating, rating |-> rating,
     has_game |-> hasGame, game_id |-> gameID, has_user |-> FALSE, user_id |-> ""]

\* A body that names another game and another user besides the rating.
ForeignBody(rating, gameID, userID) ==
    [ObjectBody(TRUE, rating, TRUE, gameID) EXCEPT !.has_user = TRUE, !.user_id = userID]

Bodies ==
    {ObjectBody(TRUE, n, FALSE, "") : n \in BodyRatings}
        \cup {ObjectBody(FALSE, 0, FALSE, ""), ObjectBody(TRUE, 4, TRUE, "g2"), MalformedBody}
        \cup {ForeignBody(3, g, u) : g \in Games, u \in UserIDs}

\* Decode fills the fields the body names and leaves the others at their zero
\* value; a malformed body fills nothing and returns an error.  UserID has the
\* json tag "-": a user_id in the body is never read.
Decode(body) ==
    IF body.kind = "object"
    THEN [rating |-> Rating("", IF body.has_game THEN body.game_id ELSE "",
                            IF body.has_rating THEN body.rating ELSE 0),
          err |-> FALSE]
    ELSE [rating |-> ZeroRating, err |-> TRUE]

----------------------------------------------------------------------------
\* A request being served, with the handler's locals and the response writer.

\* The verifier's answer to the outbound GET: a transport failure (client.Do
\* returns an error, the 5 s timeout included), or a response with a status code
\* and a body that decodes into a User or does not.
NoReply == [kind |-> "none", code |-> 0, decodable |-> FALSE, id |-> ""]
TransportFailure == [NoReply EXCEPT !.kind = "transport"]
Response(code, decodable, id) ==
    [kind |-> "response", code |-> code, decodable |-> decodable, id |-> id]

Methods == {"GET /", "GET /{id}", "PUT /{id}"}
Tokens == {"", "bad", "tok-u1", "tok-u2"}
TokenUser(token) == IF token = "tok-u1" THEN "u1" ELSE "u2"

\* method: the request line; reply: what the verifier answered to the request's
\* Authorization header; user: the User in the request context; id: the route
\* variable the handler reads; rating, decodeErr: putRating's local and the
\* decode error it discards; fault: whether the store failed the request's
\* latest call; err: the error the repository returned;
\* status, ctype, out: what the response writer has been given.
\* logged, invoked, storeOps record that the request was logged, that the route
\* handler was entered and how many store calls (Aggregate, FindOne, ReplaceOne;
\* the two phases of an upsert are one call) were made for the request.
NoRequest ==
    [pc |-> "idle", method |-> "", reply |-> NoReply, logged |-> FALSE,
     user |-> "", id |-> "", rating |-> ZeroRating, decodeErr |-> FALSE,
     fault |-> FALSE, err |-> "nil", invoked |-> FALSE, storeOps |-> 0,
     status |-> 0, ctype |-> <<>>, out |-> NoOutput]

NewRequest(method) == [NoRequest EXCEPT !.pc = "serve", !.method = method]

\* http.Error: replaces the Content-Type header, writes the status and the text.
HttpError(r, msg, code) ==
    [r EXCEPT !.pc = "done", !.status = code,
              !.ctype = <<"text/plain; charset=utf-8">>, !.out = TextBody(msg)]

\* json.NewEncoder(w).Encode: the first Write sends status 200 with the
\* headers as they are.
WriteJSON(r, json) == [r EXCEPT !.pc = "done", !.status = StatusOK, !.out = json]

\* The Content-Type the client receives: the first header value, or the
\* sniffed type of a JSON text when no header was set.
ContentType(r) == IF r.ctype = <<>> THEN "text/plain; charset=utf-8" ELSE r.ctype[1]

\* What the verifier may answer for a token: it accepts the two users' tokens
\* (its 200 body may still be undecodable) and rejects every other one, the
\* empty token of a missing Authorization header included.
VerifierReplies(token) ==
    IF token \in {"tok-u1", "tok-u2"}
    THEN {Response(200, TRUE, TokenUser(token)), Response(200, FALSE, ""), TransportFailure}
    ELSE {Response(401, FALSE, ""), TransportFailure}

----------------------------------------------------------------------------
\* Authenticator.

AuthenticateUser_AnyResponse(reply) ==
    IF reply.kind = "transport"
    THEN [user |-> "", err |-> TRUE]
    ELSE [user |-> reply.id, err |-> FALSE]

AuthenticateUser(reply) ==
    IF reply.kind = "transport"
    THEN [user |-> "", err |-> TRUE]
    ELSE IF reply.code = 200
         THEN IF reply.decodable
              THEN [user |-> reply.id, err |-> FALSE]
              ELSE [user |-> "", err |-> TRUE]
         ELSE [user |-> "", err |-> TRUE]

----------------------------------------------------------------------------
\* Middleware chain, in the order App.Initialize registers it.

LogRequestsMiddleware(r) == [r EXCEPT !.logged = TRUE]

\* On failure writes 403 and does not call next; on success puts the user in
\* the request context.
AuthenticationMiddleware(r, reply) ==
    LET a == AuthenticateUser(reply)
    IN  IF a.err
        THEN HttpError([r EXCEPT !.reply = reply], "Forbidden", StatusForbidden)
        ELSE [r EXCEPT !.reply = reply, !.user = a.user]

\* Header().Add appends a Content-Type value.
ContentTypeMiddleware(r) == [r EXCEPT !.ctype = Append(@, "application/json")]

\* The router's dispatch to the route handler, with the route variable.
Route(r, id) ==
    [r EXCEPT !.id = id,
              !.pc = IF r.method = "GET /" THEN "getRatings"
                     ELSE IF r.method = "GET /{id}" THEN "getRating"
                     ELSE "putRating"]

Pipeline(r, reply, id) ==
    LET authed == AuthenticationMiddleware(LogRequestsMiddleware(r), reply)
    IN  IF authed.pc = "done" THEN authed ELSE Route(ContentTypeMiddleware(authed), id)

----------------------------------------------------------------------------
\* MongoRatingRepository over the collection st.

Matching(st, gameID, userID) ==
    {i \in DOMAIN st : st[i].game_id = gameID /\ st[i].user_id = userID}

\* The first matching document in natural order (FindOne, ReplaceOne).
FirstOf(S) == CHOOSE i \in S : \A j \in S : i <= j

RECURSIVE SumRatings(_, _)
SumRatings(st, S) ==
    IF S = {} THEN 0
    ELSE LET i == CHOOSE x \in S : TRUE IN st[i].rating + SumRatings(st, S \ {i})

\* $group by game_id with $avg of rating: the average kept as sum and count.
Groups(st) ==
    {[game_id |-> g,
      sum |-> SumRatings(st, {i \in DOMAIN st : st[i].game_id = g}),
      cnt |-> Cardinality({i \in DOMAIN st : st[i].game_id = g})]
        : g \in {st[i].game_id : i \in DOMAIN st}}

\* $sort rating -1: every order of the groups that is non-increasing by
\* average; MongoDB does not fix the order of equal averages.
SortedDesc(G) ==
    {q \in [1 .. Cardinality(G) -> G] :
        /\ \A i, j \in DOMAIN q : i # j => q[i] # q[j]
        /\ \A i, j \in DOMAIN q : i < j => q[i].sum * q[j].cnt >= q[j].sum * q[i].cnt}

\* cur.All decodes each group into a Rating, whose Rating field is an int: the
\* driver's int decoder refuses a double with a fractional part (truncation is
\* off by default) and cur.All returns its error.
Integral(g) == g.sum % g.cnt = 0

GetAvgRatings(st, fault, q, isNil) ==
    IF fault
    THEN [ratings |-> Slice(TRUE, <<>>), err |-> "aggregate"]
    ELSE IF \E i \in DOMAIN q : ~Integral(q[i])
         THEN [ratings |-> Slice(TRUE, <<>>), err |-> "decode"]
         ELSE [ratings |-> Slice(q = <<>> /\ isNil,
                                 [i \in DOMAIN q |-> Rating("", q[i].game_id, q[i].sum \div q[i].cnt)]),
               err |-> "nil"]

GetRating_NotFoundIsError(st, gameID, userID, fault) ==
    IF fault \/ Matching(st, gameID, userID) = {}
    THEN [rating |-> ZeroRating, err |-> "find"]
    ELSE [rating |-> FromBSON(st[FirstOf(Matching(st, gameID, userID))]), err |-> "nil"]

GetRating(st, gameID, userID, fault) ==
    IF fault
    THEN [rating |-> ZeroRating, err |-> "find"]
    ELSE IF Matching(st, gameID, userID) = {}
         THEN [rating |-> Rating("", gameID, 0), err |-> "nil"]
         ELSE [rating |-> FromBSON(st[FirstOf(Matching(st, gameID, userID))]), err |-> "nil"]

\* ReplaceOne with upsert: the replacement of the first matching document ...
ReplaceDoc(st, rating) ==
    [st EXCEPT ![FirstOf(Matching(st, rating.GameID, rating.UserID))] = ToBSON(rating)]

\* ... or the insert of a new one when the query matched nothing.
InsertDoc(st, rating) == Append(st, ToBSON(rating))

----------------------------------------------------------------------------
\* Handler responses.

getRatingsEncode_NoLenCheck(sl) == EncodeSlice(sl)

\* getRatings: an empty result is encoded as make([]Rating, 0).
getRatingsEncode(sl) ==
    IF Len(sl.elems) = 0 THEN JSONArray(<<>>) ELSE EncodeSlice(sl)

putRatingError_500(r) == HttpError(r, "Error", StatusInternalServerError)

putRatingError(r) == HttpError(r, "Error", StatusBadRequest)

\* The rating putRating hands to PutRating: the decoded body (decode error
\* discarded) with GameID and UserID overwritten.
putRatingInput_KeepBodyGame(r, body) == [Decode(body).rating EXCEPT !.UserID = r.user]

putRatingInput(r, body) ==
    [Decode(body).rating EXCEPT !.GameID = r.id, !.UserID = r.user]

Key(rating) == <<rating.GameID, rating.UserID>>

----------------------------------------------------------------------------
Init ==
    /\ store = <<>>
    /\ inflight = EmptyBag
    /\ resp = NoRequest
    /\ issued = 0
    /\ lastPut = [k \in Games \X UserIDs |-> 0]

\* The goroutine serving r goes on as r2: to its next store call, or, when r2
\* has its response, to the end.
Continue(r, r2) ==
    /\ resp = NoRequest
    /\ IF r2.pc = "done"
       THEN /\ inflight' = inflight (-) SetToBag({r})
            /\ resp' = r2
       ELSE /\ inflight' = (inflight (-) SetToBag({r})) (+) SetToBag({r2})
            /\ resp' = resp

\* A request arrives and runs through the middleware chain up to the handler.
ServeHTTP ==
    /\ resp = NoRequest
    /\ issued < MaxRequests
    /\ BagCardinality(inflight) < MaxInFlight
    /\ \E method \in Methods, token \in Tokens :
         \E id \in (IF method = "GET /" THEN {""} ELSE Games),
            reply \in VerifierReplies(token) :
              LET r == Pipeline(NewRequest(method), reply, id)
              IN  IF r.pc = "done"
                  THEN resp' = r /\ inflight' = inflight
                  ELSE resp' = resp /\ inflight' = inflight (+) SetToBag({r})
    /\ issued' = issued + 1
    /\ UNCHANGED <<store, lastPut>>

\* GET /
getRatings ==
    \E r \in BagToSet(inflight) :
        /\ r.pc = "getRatings"
        /\ \E fault \in BOOLEAN, isNil \in BOOLEAN, q \in SortedDesc(Groups(store)) :
             LET res == GetAvgRatings(store, fault, q, isNil)
                 r1 == [r EXCEPT !.invoked = TRUE, !.storeOps = @ + 1,
                                 !.fault = fault, !.err = res.err]
             IN  Continue(r, IF res.err # "nil"
                             THEN HttpError(r1, "Error", StatusInternalServerError)
                             ELSE WriteJSON(r1, getRatingsEncode(res.ratings)))
        /\ UNCHANGED <<store, issued, lastPut>>

\* GET /{id}, and the re-fetch that ends PUT /{id}
getRating ==
    \E r \in BagToSet(inflight) :
        /\ r.pc = "getRating"
        /\ \E fault \in BOOLEAN :
             LET res == GetRating(store, r.id, r.user, fault)
                 r1 == [r EXCEPT !.invoked = TRUE, !.storeOps = @ + 1,
                                 !.fault = fault, !.err = res.err]
             IN  Continue(r, IF res.err # "nil"
                             THEN HttpError(r1, "Error", StatusInternalServerError)
                             ELSE WriteJSON(r1, JSONObject(res.rating)))
        /\ UNCHANGED <<store, issued, lastPut>>

\* PUT /{id} up to the query phase of ReplaceOne: validation, then either the
\* replacement of the matching document or the decision to insert.
putRating ==
    \E r \in BagToSet(inflight) :
        /\ r.pc = "putRating"
        /\ \E body \in Bodies :
           LET rating == putRatingInput(r, body)
               r1 == [r EXCEPT !.invoked = TRUE, !.rating = rating,
                               !.decodeErr = Decode(body).err]
           IN  IF ~valid(rating)
               THEN /\ Continue(r, putRatingError([r1 EXCEPT !.err = "invalid"]))
                    /\ UNCHANGED <<store, lastPut>>
               ELSE \E fault \in BOOLEAN :
                      IF fault
                      THEN /\ Continue(r, putRatingError([r1 EXCEPT !.fault = TRUE,
                                                                    !.err = "replace",
                                                                    !.storeOps = @ + 1]))
                           /\ UNCHANGED <<store, lastPut>>
                      ELSE IF Matching(store, rating.GameID, rating.UserID) # {}
                           THEN /\ store' = ReplaceDoc(store, rating)
                                /\ lastPut' = [lastPut EXCEPT ![Key(rating)] = rating.Rating]
                                /\ Continue(r, [r1 EXCEPT !.pc = "getRating", !.storeOps = @ + 1])
                           ELSE /\ Continue(r, [r1 EXCEPT !.pc = "upsert", !.storeOps = @ + 1])
                                /\ UNCHANGED <<store, lastPut>>
        /\ UNCHANGED issued

\* The insert phase of an upsert whose query matched nothing.  The collection
\* has no unique index on (game_id, user_id) (Initialize creates none), so the
\* server does not look again for a document inserted since the query.
upsertInsert ==
    \E r \in BagToSet(inflight) :
        /\ r.pc = "upsert"
        /\ \E fault \in BOOLEAN :
             IF fault
             THEN /\ Continue(r, putRatingError([r EXCEPT !.fault = TRUE, !.err = "replace"]))
                  /\ UNCHANGED <<store, lastPut>>
             ELSE /\ store' = InsertDoc(store, r.rating)
                  /\ lastPut' = [lastPut EXCEPT ![Key(r.rating)] = r.rating.Rating]
                  /\ Continue(r, [r EXCEPT !.pc = "getRating"])
        /\ UNCHANGED issued

\* The response has gone to the client; the goroutine ends.
Respond ==
    /\ resp.pc = "done"
    /\ resp' = NoRequest
    /\ UNCHANGED <<store, inflight, issued, lastPut>>

Next ==
    \/ ServeHTTP
    \/ getRatings
    \/ getRating
    \/ putRating
    \/ upsertInsert
    \/ Respond

Spec == Init /\ [][Next]_vars

----------------------------------------------------------------------------
\* Properties.  resp holds a response only in the state right after the step
\* that wrote it, and every such step leaves the store as it found it: in a
\* state with resp.pc = "done", store is the collection the handler's last
\* store call saw.

Answered == resp.pc = "done"

\* The step that writes a response.
Answers == resp.pc # "done" /\ resp'.pc = "done"

\* The request passed authentication and reached its route handler.
Authenticated(r) == r.invoked

OutOfRange(n) == n < 1 \/ n > 5

\* The verifier's answer is an authentication failure: a transport failure, a
\* status other than 200, or a 200 whose payload does not decode.
AuthFails(reply) == reply.kind = "transport" \/ reply.code # 200 \/ ~reply.decodable

\* C1: the store holds at most one rating record for each (game_id, user_id)
\* pair, after any sequence and interleaving of PUT /{id} requests.
C1_AtMostOneRatingPerPair ==
    \A g \in Games, u \in UserIDs : Cardinality(Matching(store, g, u)) <= 1

\* C2: every rating record in the store has 1 <= rating <= 5, whatever the
\* bodies sent to PUT /{id}.
C2_StoredRatingsInRange ==
    \A i \in DOMAIN store : store[i].rating >= 1 /\ store[i].rating <= 5

\* Records are stored and a PUT with an out-of-range rating has been answered.
C2_Witness ==
    /\ Answered /\ resp.method = "PUT /{id}" /\ Authenticated(resp)
    /\ OutOfRange(resp.rating.Rating)
    /\ Len(store) >= 2

\* C3: an authenticated PUT /{id} whose rating is outside [1, 5] is answered
\* with 400, made no store call, and its step leaves the store unchanged.
C3_InvalidPutRejected ==
    [][(/\ Answers /\ resp'.method = "PUT /{id}" /\ Authenticated(resp')
        /\ OutOfRange(resp'.rating.Rating))
          => (/\ resp'.status = StatusBadRequest
              /\ resp'.storeOps = 0
              /\ store' = store)]_vars

\* A PUT with rating 7 has been answered with 400 while the store holds a record.
C3_Witness ==
    /\ Answered /\ resp.method = "PUT /{id}" /\ Authenticated(resp)
    /\ resp.rating.Rating = 7 /\ ~resp.decodeErr
    /\ resp.status = StatusBadRequest
    /\ store # <<>>

\* C4: on every route, a request whose authentication fails is answered with
\* 403, its route handler is never entered and no store call is made for it;
\* no request whose authentication failed is ever in a handler.
C4_AuthFailureIs403 ==
    /\ (Answered /\ AuthFails(resp.reply))
          => (resp.status = StatusForbidden /\ ~resp.invoked /\ resp.storeOps = 0)
    /\ \A r \in BagToSet(inflight) : ~AuthFails(r.reply)

\* A PUT the verifier rejected with 401 has been answered 403, the store not empty.
C4_Witness ==
    /\ Answered /\ resp.method = "PUT /{id}"
    /\ resp.reply.kind = "response" /\ resp.reply.code = 401
    /\ resp.status = StatusForbidden
    /\ store # <<>>

\* C5: a successful read of (game_id, user_id), by GET /{id} or by the re-fetch
\* of PUT /{id}, returns the value of the most recent successful put_rating
\* for that pair.
C5_GetReturnsLatestPut ==
    (/\ Answered /\ resp.method \in {"GET /{id}", "PUT /{id}"}
     /\ resp.status = StatusOK
     /\ lastPut[<<resp.id, resp.user>>] # 0)
        => resp.out.items[1].rating = lastPut[<<resp.id, resp.user>>]

\* C6: GET /{id} for a pair with no record, the store call not failing, is
\* answered 200 with game_id = the requested id and rating = 0, and the store
\* is not modified.
C6_UnratedIsZero ==
    [][(/\ Answers /\ resp'.method = "GET /{id}" /\ Authenticated(resp')
        /\ ~resp'.fault
        /\ Matching(store, resp'.id, resp'.user) = {})
          => (/\ resp'.status = StatusOK
              /\ resp'.out.t = "object"
              /\ resp'.out.items = <<[game_id |-> resp'.id, rating |-> 0]>>
              /\ store' = store)]_vars

\* A GET /{id} for an unrated pair has been answered with rating 0 while the
\* store holds other pairs' records.
C6_Witness ==
    /\ Answered /\ resp.method = "GET /{id}" /\ resp.status = StatusOK
    /\ Matching(store, resp.id, resp.user) = {}
    /\ resp.out.items[1].rating = 0
    /\ store # <<>>

\* C7: GET /, the store call not failing, returns exactly one entry per
\* distinct game_id in the store, each entry's rating the arithmetic mean of
\* the ratings stored for that game (non-integral means included), the entries
\* in non-increasing order of rating.
C7_AvgRatingsAreMeans ==
    (/\ Answered /\ resp.method = "GET /" /\ Authenticated(resp) /\ ~resp.fault)
        => (/\ resp.status = StatusOK
            /\ resp.out.t = "array"
            /\ Len(resp.out.items) = Cardinality(Groups(store))
            /\ \A g \in Groups(store) :
                 \E i \in DOMAIN resp.out.items :
                    /\ resp.out.items[i].game_id = g.game_id
                    /\ resp.out.items[i].rating * g.cnt = g.sum
            /\ \A i, j \in DOMAIN resp.out.items :
                 i < j => resp.out.items[i].rating >= resp.out.items[j].rating)

\* C8: GET / on an empty store, the store call not failing, is answered 200
\* with the empty JSON array, never null.
C8_EmptyStoreGivesEmptyArray ==
    (/\ Answered /\ resp.method = "GET /" /\ Authenticated(resp) /\ ~resp.fault
     /\ store = <<>>)
        => (resp.status = StatusOK /\ resp.out.t = "array" /\ resp.out.items = <<>>)

\* A GET / on the empty store has been answered.
C8_Witness ==
    /\ Answered /\ resp.method = "GET /" /\ Authenticated(resp) /\ ~resp.fault
    /\ store = <<>>
    /\ resp.out.t = "array"

\* C9: every response, on every route and for every outcome, carries
\* Content-Type: application/json.
C9_EveryResponseIsJSON ==
    Answered => ContentType(resp) = "application/json"

C11_MalformedBodyIsWritten ==
    (/\ Answered /\ resp.method = "PUT /{id}" /\ Authenticated(resp)
     /\ resp.decodeErr)
        => \E i \in DOMAIN store : store[i] = ToBSON(Rating(resp.user, resp.id, 0))

\* C11 as amended: the decode error is discarded and the rating handed to
\* PutRating has the default value 0, the route's game_id and the user's id;
\* it fails validation, the request is answered 400, no store call is made
\* and the store is left unchanged.
C11_MalformedBodyIsRejected ==
    [][(/\ Answers /\ resp'.method = "PUT /{id}" /\ Authenticated(resp')
        /\ resp'.decodeErr)
          => (/\ resp'.rating = Rating(resp'.user, resp'.id, 0)
              /\ resp'.status = StatusBadRequest
              /\ resp'.storeOps = 0
              /\ store' = store)]_vars

\* A PUT with a malformed body has been answered 400 while the store holds a
\* record, none of it with rating 0.
C11_Witness ==
    /\ Answered /\ resp.method = "PUT /{id}" /\ Authenticated(resp)
    /\ resp.decodeErr
    /\ resp.status = StatusBadRequest
    /\ store # <<>>
    /\ \A i \in DOMAIN store : store[i].rating # 0

\* The goroutine serving r takes the step: it leaves r behind.
Acts(r) == CopiesIn(r, inflight') < CopiesIn(r, inflight)

DocKey(d) == <<d.game_id, d.user_id>>

\* The step changes at most records keyed k: no document is removed, every
\* document with another key stays as and where it is, and a document that is
\* new or changed has key k.
ChangesOnly(k) ==
    /\ Len(store') >= Len(store)
    /\ \A i \in DOMAIN store : DocKey(store[i]) # k => store'[i] = store[i]
    /\ \A i \in DOMAIN store' :
         (i \notin DOMAIN store \/ store'[i] # store[i]) => DocKey(store'[i]) = k

\* C12: a step of a PUT /{id} request authenticated as u with route id g
\* changes at most the records keyed (g, u), whatever game_id or user_id its
\* body names; every other step (of GET /, of GET /{id}, the arrival of a
\* request, the sending of a response) leaves the whole store unchanged.
C12_PutChangesOnlyItsKey ==
    [][/\ \A r \in BagToSet(inflight) :
            Acts(r) => IF r.method = "PUT /{id}"
                       THEN ChangesOnly(<<r.id, r.user>>)
                       ELSE store' = store
       /\ (\A r \in BagToSet(inflight) : ~Acts(r)) => store' = store]_vars

\* A PUT has written its own record and been answered, while the store also
\* holds another user's record for the same game.
C12_Witness ==
    /\ Answered /\ resp.method = "PUT /{id}" /\ resp.status = StatusOK
    /\ lastPut[<<resp.id, resp.user>>] = resp.rating.Rating
    /\ \E i \in DOMAIN store : store[i] = ToBSON(resp.rating)
    /\ \E i \in DOMAIN store : store[i].game_id = resp.id /\ store[i].user_id # resp.user
====
